---- MODULE Spec2Model ----
(***************************************************************************)
(* Demand & inventory planning core (core_demand.py, core_inventory.py).   *)
(*                                                                         *)
(* Numbers.  The program computes in binary floating point.  The model     *)
(* computes in exact rational arithmetic: a number is a pair <<n, d>> with *)
(* d > 0 in lowest terms, so that equal numbers are equal values.  The     *)
(* inputs are drawn from small integers, for which every sum, mean and     *)
(* comparison of the program is the exact one.  A missing / not-a-number   *)
(* cell is the value NaN.  A result not yet computed is the empty tuple,   *)
(* a computed one the 1-tuple holding it.                                  *)
(***************************************************************************)
EXTENDS Integers, Sequences, FiniteSets, TLC

VARIABLES
    demand,              \* the demand series handed to the forecast engine
    stats,               \* the dict returned by _compute_demand_stats_and_forecast
    df_product_forecast, \* plan_inventory_dc: the forecast table passed in
    df_inventory_dc,     \* plan_inventory_dc: the inventory snapshot passed in
    params,              \* plan_inventory_dc: the keyword arguments
    df_plan,             \* plan_inventory_dc: the table returned, or the error raised
    df_long,             \* build_product_level_forecast: the demand-long table passed in
    df_product_fc,       \* build_product_level_forecast: the table returned
    month_dfs,           \* build_demand_long: the month sheets passed in, by label
    all_months,          \* build_demand_long: the long table of each sheet
    demand_long,         \* build_demand_long: the table returned
    uploaded_sales,      \* app: the files in the sales uploader, with their label inputs
    inv_file,            \* app: the file in the inventory uploader, if any
    session_state        \* app: st.session_state

varsForecast == <<demand, stats>>
varsPlan == <<df_product_forecast, df_inventory_dc, params, df_plan>>
varsProduct == <<df_long, df_product_fc>>
varsLong == <<month_dfs, all_months, demand_long>>
varsApp == <<uploaded_sales, inv_file, session_state>>
vars == <<varsForecast, varsPlan, varsProduct, varsLong, varsApp>>

\* the variables of a component that is not running hold the empty tuple
IdleForecast == demand = <<>> /\ stats = <<>>
IdlePlan ==
    df_product_forecast = <<>> /\ df_inventory_dc = <<>> /\ params = <<>> /\ df_plan = <<>>
IdleProduct == df_long = <<>> /\ df_product_fc = <<>>
IdleLong == month_dfs = <<>> /\ all_months = <<>> /\ demand_long = <<>>
IdleApp == uploaded_sales = <<>> /\ inv_file = <<>> /\ session_state = <<>>

\* what each component leaves alone
restForecast == <<varsPlan, varsProduct, varsLong, varsApp>>
restPlan == <<varsForecast, varsProduct, varsLong, varsApp>>
restProduct == <<varsForecast, varsPlan, varsLong, varsApp>>
restLong == <<varsForecast, varsPlan, varsProduct, varsApp>>
restApp == <<varsForecast, varsPlan, varsProduct, demand_long>>
IdleRestForecast == IdlePlan /\ IdleProduct /\ IdleLong /\ IdleApp
IdleRestPlan == IdleForecast /\ IdleProduct /\ IdleLong /\ IdleApp
IdleRestProduct == IdleForecast /\ IdlePlan /\ IdleLong /\ IdleApp
IdleRestLong == IdleForecast /\ IdlePlan /\ IdleProduct /\ IdleApp
IdleRestApp == IdleForecast /\ IdlePlan /\ IdleProduct /\ demand_long = <<>>

\* not-a-number: the one pair with denominator 0
NaN == <<0, 0>>
IsNaN(x) == x[2] = 0

\* ------------------------------------------------------------------------
\* Exact arithmetic standing for the program's float arithmetic
\* ------------------------------------------------------------------------
Abs(i) == IF i < 0 THEN -i ELSE i

RECURSIVE Gcd(_, _)
Gcd(a, b) == IF b = 0 THEN a ELSE Gcd(b, a % b)

\* the number n/d (d # 0) in lowest terms with a positive denominator
Q(n, d) ==
    LET s == IF d < 0 THEN -1 ELSE 1
        g == Gcd(Abs(n), Abs(d))
    IN  <<(s * n) \div g, (s * d) \div g>>

R(i) == <<i, 1>>
RAdd(a, b) == Q(a[1] * b[2] + b[1] * a[2], a[2] * b[2])
RSub(a, b) == Q(a[1] * b[2] - b[1] * a[2], a[2] * b[2])
RMul(a, b) == Q(a[1] * b[1], a[2] * b[2])
RDiv(a, b) == Q(a[1] * b[2], a[2] * b[1])
RLe(a, b) == a[1] * b[2] <= b[1] * a[2]
RLt(a, b) == a[1] * b[2] < b[1] * a[2]
RMax(a, b) == IF RLt(a, b) THEN b ELSE a
RMin(a, b) == IF RLt(b, a) THEN b ELSE a

\* a slip: int(x) alone, which truncates toward zero
PyTrunc(a) == IF a[1] >= 0 THEN a[1] \div a[2] ELSE -((-a[1]) \div a[2])

\* Python's round(x) of a float: to the nearest integer, a tie to the even one
PyRound(a) ==
    LET fl == a[1] \div a[2]                 \* floor (\div rounds down)
        twice == 2 * (a[1] - fl * a[2])      \* 2 * fractional part * d
    IN  IF twice < a[2] THEN fl
        ELSE IF twice > a[2] THEN fl + 1
        ELSE IF fl % 2 = 0 THEN fl ELSE fl + 1

RECURSIVE SeqSum(_)
SeqSum(s) == IF s = <<>> THEN 0 ELSE Head(s) + SeqSum(Tail(s))

Min(a, b) == IF a < b THEN a ELSE b
Max(a, b) == IF a > b THEN a ELSE b

\* ------------------------------------------------------------------------
\* core_demand._compute_demand_stats_and_forecast
\* ------------------------------------------------------------------------
WindowMax == 9          \* demand.tail(min(9, n))
RecentCount == 3        \* min(3, m): the points weighted 2.0

\* demand[demand > 0]
Positive(s) == SelectSeq(s, LAMBDA v : v > 0)

\* demand.tail(k)
TailN(s, k) == SubSeq(s, Len(s) - k + 1, Len(s))

\* a slip: the recent points weighted like the old ones
WeightsAllOnes(num_old, num_last_3) ==
    [i \in 1..(num_old + num_last_3) |-> 1]

\* np.concatenate([np.ones(num_old), np.full(num_last_3, 2.0)])
Weights(num_old, num_last_3) ==
    [i \in 1..(num_old + num_last_3) |-> IF i <= num_old THEN 1 ELSE 2]

\* (recent * weights).sum() / weights.sum()
WeightedMean(recent, weights) ==
    Q(SeqSum([i \in 1..Len(recent) |-> recent[i] * weights[i]]), SeqSum(weights))

\* sum of squared deviations * n^2, for the population variance
SqDevSum(s) ==
    LET n == Len(s)
        t == SeqSum(s)
    IN  SeqSum([i \in 1..n |-> (n * s[i] - t) * (n * s[i] - t)])

_compute_demand_stats_and_forecast(raw) ==
    \* the series is a groupby sum, which holds no NaN: fillna(0.0) changes nothing
    LET d == raw
        n == Len(d)
        demand_total == SeqSum(d)
        demand_avg_all == IF n > 0 THEN Q(demand_total, n) ELSE R(0)
        positive == Positive(d)
        demand_avg_nonzero ==
            IF Len(positive) > 0 THEN Q(SeqSum(positive), Len(positive)) ELSE R(0)
        \* demand.std(ddof=0) is kept as its square, the population variance
        demand_std_sq == IF n > 1 THEN Q(SqDevSum(d), n * n * n) ELSE R(0)
        demand_cv_sq ==
            IF RLt(R(0), demand_avg_all)
            THEN RDiv(demand_std_sq, RMul(demand_avg_all, demand_avg_all))
            ELSE NaN
        last_month_demand == IF n > 0 THEN d[n] ELSE 0
        zeros_count == Len(SelectSeq(d, LAMBDA v : v = 0))
        zero_ratio == IF n > 0 THEN Q(zeros_count, n) ELSE R(1)
        recent == TailN(d, Min(WindowMax, n))
        m == Len(recent)
        num_last_3 == Min(RecentCount, m)
        num_old == m - num_last_3
        fc ==
            IF demand_total = 0
            THEN <<R(0), "zero_demand">>
            ELSE IF RLe(Q(1, 2), zero_ratio) /\ RLt(R(0), demand_avg_nonzero)
            THEN <<demand_avg_nonzero, "avg_nonzero_intermittent">>
            ELSE IF n >= 4
            THEN IF m <= 3
                 THEN <<Q(SeqSum(recent), m), "mean_last_" \o ToString(m)>>
                 ELSE <<WeightedMean(recent, Weights(num_old, num_last_3)),
                        "weighted_last_" \o ToString(m) \o "_old1_new2">>
            ELSE <<IF n > 0 THEN Q(demand_total, n) ELSE R(0), "mean_all_few_months">>
    IN  [months_count |-> n,
         demand_total |-> demand_total,
         demand_avg_all |-> demand_avg_all,
         demand_avg_nonzero |-> demand_avg_nonzero,
         demand_std_sq |-> demand_std_sq,
         demand_cv_sq |-> demand_cv_sq,
         last_month_demand |-> last_month_demand,
         zeros_count |-> zeros_count,
         zero_ratio |-> zero_ratio,
         forecast_next_month |-> fc[1],
         forecast_next_month_rounded |-> Max(PyRound(fc[1]), 0),
         forecast_method |-> fc[2]]

\* ------------------------------------------------------------------------
\* Text: a Python str is the tuple of its characters
\* ------------------------------------------------------------------------
IsSpace(c) == c = " "

RECURSIVE LStrip(_)
LStrip(s) == IF s # <<>> /\ IsSpace(Head(s)) THEN LStrip(Tail(s)) ELSE s

RECURSIVE RStrip(_)
RStrip(s) ==
    IF s # <<>> /\ IsSpace(s[Len(s)]) THEN RStrip(SubSeq(s, 1, Len(s) - 1)) ELSE s

\* s.strip()
Strip(s) == RStrip(LStrip(s))

LowerChar(c) ==
    CASE c = "N" -> "n" [] c = "A" -> "a" [] c = "E" -> "e"
      [] c = "T" -> "t" [] c = "O" -> "o" [] c = "L" -> "l" [] OTHER -> c

\* s.lower()
Lower(s) == [i \in 1..Len(s) |-> LowerChar(s[i])]

\* s.find(c) + 1
IndexOf(s, c) ==
    IF \E i \in 1..Len(s) : s[i] = c
    THEN CHOOSE i \in 1..Len(s) : s[i] = c /\ \A j \in 1..(i - 1) : s[j] # c
    ELSE 0

\* s.strip(c) == ""
StripsToEmpty(s, c) == \A i \in 1..Len(s) : s[i] = c

\* ------------------------------------------------------------------------
\* core_demand.normalize_item_code
\* ------------------------------------------------------------------------
\* The codes of the model are written with blanks, commas, signs, digits, the
\* point, the exponent letter and letters; Decimal's other spellings
\* (underscores, Infinity, sNaN) are outside that alphabet.
Digits == {"0", "1", "2", "3", "4", "5", "6", "7", "8", "9"}
AllDigits(s) == \A i \in 1..Len(s) : s[i] \in Digits
DigitVal(c) == CHOOSE v \in 0..9 : ToString(v) = c

\* int(s) of a tuple of digits ("" counts 0)
RECURSIVE ToInt(_)
ToInt(s) == IF s = <<>> THEN 0 ELSE 10 * ToInt(SubSeq(s, 1, Len(s) - 1)) + DigitVal(s[Len(s)])

\* str(n) of a natural number
RECURSIVE IntChars(_)
IntChars(n) == IF n < 10 THEN <<ToString(n)>> ELSE IntChars(n \div 10) \o <<ToString(n % 10)>>

\* str(int(s)) of a non-empty tuple of digits: the leading zeros dropped
RECURSIVE StripLeadingZeros(_)
StripLeadingZeros(s) ==
    IF Len(s) > 1 /\ Head(s) = "0" THEN StripLeadingZeros(Tail(s)) ELSE s

\* s.replace(c, "")
RemoveChar(s, c) == SelectSeq(s, LAMBDA x : x # c)

Signed(t) == t # <<>> /\ Head(t) \in {"+", "-"}
Unsigned(t) == IF Signed(t) THEN Tail(t) ELSE t
Negative(t) == t # <<>> /\ Head(t) = "-"

\* the position of the exponent letter, 0 if there is none
ExpIndex(s) == IF IndexOf(s, "E") > 0 THEN IndexOf(s, "E") ELSE IndexOf(s, "e")
Mantissa(s) == IF ExpIndex(s) = 0 THEN s ELSE SubSeq(s, 1, ExpIndex(s) - 1)
Exponent(s) == IF ExpIndex(s) = 0 THEN <<>> ELSE SubSeq(s, ExpIndex(s) + 1, Len(s))
IntPart(mant) ==
    IF IndexOf(mant, ".") = 0 THEN mant ELSE SubSeq(mant, 1, IndexOf(mant, ".") - 1)
FracPart(mant) ==
    IF IndexOf(mant, ".") = 0 THEN <<>>
    ELSE SubSeq(mant, IndexOf(mant, ".") + 1, Len(mant))

\* Decimal(s): [ok |-> FALSE] for InvalidOperation, else sign, coefficient
\* (its digits: a code has more of them than a machine integer holds) and
\* exponent of the number  (-1)^neg * coeff * 10^exp
Decimal(s) ==
    LET mant == Unsigned(Mantissa(s))
        expo == Exponent(s)
        ok == /\ AllDigits(IntPart(mant)) /\ AllDigits(FracPart(mant))
              /\ Len(IntPart(mant)) + Len(FracPart(mant)) > 0
              /\ ExpIndex(s) > 0 => (Unsigned(expo) # <<>> /\ AllDigits(Unsigned(expo)))
    IN  IF ~ok THEN [ok |-> FALSE, neg |-> FALSE, coeff |-> <<"0">>, exp |-> 0]
        ELSE [ok |-> TRUE,
              neg |-> Negative(Mantissa(s)),
              coeff |-> StripLeadingZeros(IntPart(mant) \o FracPart(mant)),
              exp |-> (IF Negative(expo) THEN -ToInt(Unsigned(expo))
                       ELSE ToInt(Unsigned(expo))) - Len(FracPart(mant))]

\* d == d.to_integral_value(): no non-zero digit below the units
IsIntegral(d) ==
    \/ d.exp >= 0
    \/ \A i \in 1..Len(d.coeff) : i > Len(d.coeff) + d.exp => d.coeff[i] = "0"

\* d.to_integral_value(): d itself when its exponent is >= 0, else the
\* integer with exponent 0
ToIntegralValue(d) ==
    IF d.exp >= 0 THEN d
    ELSE [ok |-> TRUE, neg |-> d.neg,
          coeff |-> IF Len(d.coeff) + d.exp <= 0 THEN <<"0">>
                    ELSE SubSeq(d.coeff, 1, Len(d.coeff) + d.exp),
          exp |-> 0]

\* str(d) of a Decimal with exponent >= 0: plain digits for exponent 0,
\* scientific notation (one digit before the point) above
DecimalStr(d) ==
    LET cd == d.coeff
        sign == IF d.neg THEN <<"-">> ELSE <<>>
    IN  IF d.exp = 0 THEN sign \o cd
        ELSE sign \o <<cd[1]>>
             \o (IF Len(cd) > 1 THEN <<".">> \o Tail(cd) ELSE <<>>)
             \o <<"E", "+">> \o IntChars(d.exp + Len(cd) - 1)

\* s.replace(",", "").strip()
Clean(s) == Strip(RemoveChar(s, ","))

\* a slip: the cleaned text is returned for every code
normalize_item_code_text_only(x) ==
    IF Strip(x) = <<>> \/ Lower(Strip(x)) = <<"n", "a", "n">> THEN <<>>
    ELSE Clean(Strip(x))

normalize_item_code(x) ==
    IF Strip(x) = <<>> \/ Lower(Strip(x)) = <<"n", "a", "n">> THEN <<>>
    ELSE IF Decimal(Clean(Strip(x))).ok /\ IsIntegral(Decimal(Clean(Strip(x))))
    THEN DecimalStr(ToIntegralValue(Decimal(Clean(Strip(x)))))
    ELSE Clean(Strip(x))

\* ------------------------------------------------------------------------
\* core_inventory.normalize_item_code
\* ------------------------------------------------------------------------
\* a slip: the code is only trimmed, a trailing .0 is kept
inventory_normalize_trim_only(x) ==
    LET s == Strip(x)
    IN  IF s = <<>> \/ Lower(s) = <<"n", "a", "n">> THEN <<>> ELSE s

inventory_normalize_item_code(x) ==
    LET s == Strip(x)
        dot == IndexOf(s, ".")
        left == SubSeq(s, 1, dot - 1)
        right == SubSeq(s, dot + 1, Len(s))
    IN  IF s = <<>> \/ Lower(s) = <<"n", "a", "n">>
        THEN <<>>
        ELSE IF dot > 0 /\ StripsToEmpty(right, "0")
        THEN Strip(left)
        ELSE Strip(s)

\* ------------------------------------------------------------------------
\* core_inventory._z_from_service_level
\* ------------------------------------------------------------------------
_z_from_service_level(sl) ==
    IF RLe(Q(999, 1000), sl) THEN Q(309, 100)
    ELSE IF RLe(Q(99, 100), sl) THEN Q(233, 100)
    ELSE IF RLe(Q(98, 100), sl) THEN Q(205, 100)
    ELSE IF RLe(Q(95, 100), sl) THEN Q(164, 100)
    ELSE IF RLe(Q(90, 100), sl) THEN Q(128, 100)
    ELSE IF RLe(Q(85, 100), sl) THEN Q(104, 100)
    ELSE R(0)

\* ------------------------------------------------------------------------
\* core_inventory.plan_inventory_dc
\* ------------------------------------------------------------------------
\* A table is [columns |-> the set of its headers, rows |-> the tuple of its
\* rows].  A header is <<name, pad>>: the text name with the blanks pad on
\* both sides.  A row holds a value for every column the model reads; a
\* column that is not among the headers is never read.

\* str(c).strip() of a header
StripHeader(h) == h[1]

\* df.columns = [str(c).strip() for c in df.columns]
Columns(df) == {StripHeader(h) : h \in df.columns}

\* if "iteam name" not in df_i.columns and "item name" in df_i.columns: rename
RenameAlias(cols) ==
    IF "iteam name" \notin cols /\ "item name" \in cols
    THEN (cols \ {"item name"}) \cup {"iteam name"}
    ELSE cols

required_forecast_cols ==
    <<"item code", "months_count", "months_list", "demand_total", "demand_avg_all",
      "demand_avg_nonzero", "demand_std", "demand_cv", "last_month_demand",
      "forecast_next_month", "forecast_next_month_rounded", "forecast_method">>

required_inv_cols ==
    <<"item code", "iteam name", "on_hand_dc", "on_order_from_china",
      "lead_time_import_days", "safety_stock_days">>

\* a slip: the first missing column only
MissingFirstOnly(required, cols) ==
    LET all == SelectSeq(required, LAMBDA c : c \notin cols)
    IN  IF all = <<>> THEN <<>> ELSE <<all[1]>>

\* [c for c in required if c not in df.columns]
Missing(required, cols) == SelectSeq(required, LAMBDA c : c \notin cols)

\* pd.to_numeric(col, errors="coerce").fillna(0.0)
ToNumericFill0(c) == IF IsNaN(c) THEN R(0) ELSE c

\* the exact root of a non-negative rational that is a square
ISqrt(n) == CHOOSE r \in 0..n : r * r = n
RSqrt(q) == <<ISqrt(q[1]), ISqrt(q[2])>>

\* the rows of s at the positions in idx, in order
RECURSIVE Pick(_, _, _)
Pick(s, idx, i) ==
    IF i > Len(s) THEN <<>>
    ELSE (IF i \in idx THEN <<s[i]>> ELSE <<>>) \o Pick(s, idx, i + 1)

\* the outcomes of df.sort_values("demand_total", ascending=False): the default
\* quicksort is not stable, so rows with equal demand_total come in any order
SortOutcomes(rows) ==
    LET n == Len(rows)
    IN  {[i \in 1..n |-> rows[p[i]]] :
            p \in {q \in [1..n -> 1..n] :
                    /\ \A i, j \in 1..n : i # j => q[i] # q[j]
                    /\ \A i \in 1..(n - 1) :
                          RLe(rows[q[i + 1]].demand_total, rows[q[i]].demand_total)}}

\* a slip: the duplicates are kept
KeepDuplicates(rows) == rows

\* df.drop_duplicates("item_code_key", keep="first")
DropDuplicates(rows) ==
    Pick(rows,
         {i \in 1..Len(rows) :
            \A j \in 1..(i - 1) : rows[j].item_code_key # rows[i].item_code_key},
         1)

\* the forecast columns of an inventory row that matches no forecast row
AbcMissing == "nan"
NoForecast ==
    [demand_total |-> NaN, forecast_next_month |-> NaN, demand_std |-> NaN,
     abc_class |-> AbcMissing]

ForecastPart(r) ==
    [demand_total |-> r.demand_total, forecast_next_month |-> r.forecast_next_month,
     demand_std |-> r.demand_std, abc_class |-> r.abc_class]

\* pd.merge(df_i, df_f[...], on="item_code_key", how="left"): each left row
\* once per matching right row, or once with missing values when none matches
RECURSIVE Merge(_, _)
Merge(left, right) ==
    IF left = <<>> THEN <<>>
    ELSE LET l == Head(left)
             hits == SelectSeq(right, LAMBDA r : r.item_code_key = l.item_code_key)
         IN  (IF hits = <<>>
              THEN <<[inv |-> l, fc |-> NoForecast]>>
              ELSE [i \in 1..Len(hits) |-> [inv |-> l, fc |-> ForecastPart(hits[i])]])
             \o Merge(Tail(left), right)

\* str(row.get("abc_class", "")).strip().upper()
StripUpper(abc) ==
    CASE abc = " a " -> "A" [] abc = "nan" -> "NAN" [] OTHER -> abc

\* a slip: class C keeps the base service level
_map_service_level_no_cap(row, service_level) ==
    IF StripUpper(row.abc_class) = "A" THEN RMax(service_level, Q(98, 100))
    ELSE service_level

_map_service_level(row, service_level) ==
    LET abc == StripUpper(row.abc_class)
        base == service_level
    IN  IF abc = "A" THEN RMax(base, Q(98, 100))
        ELSE IF abc = "B" THEN base
        ELSE IF abc = "C" THEN RMin(base, Q(90, 100))
        ELSE base

\* a slip: the statistical formula without its guards
_calc_safety_stock_no_fallback(row, safety_stock_mode) ==
    IF RLe(row.forecast_daily, R(0)) THEN R(0)
    ELSE IF safety_stock_mode = "days" THEN RMul(row.forecast_daily, row.safety_stock_days)
    ELSE RMul(RMul(_z_from_service_level(row.service_level_effective),
                   row.demand_daily_std),
              RSqrt(row.lead_time_import_days))

_calc_safety_stock(row, safety_stock_mode) ==
    LET fd == row.forecast_daily
        ss_days == row.safety_stock_days
        lt_days == row.lead_time_import_days
        sigma_d == row.demand_daily_std
        z == _z_from_service_level(row.service_level_effective)
    IN  IF RLe(fd, R(0)) THEN R(0)
        ELSE IF safety_stock_mode = "days" THEN RMul(fd, ss_days)
        ELSE IF RLt(R(0), z) /\ RLt(R(0), sigma_d) /\ RLt(R(0), lt_days)
        THEN RMul(RMul(z, sigma_d), RSqrt(lt_days))
        ELSE RMul(fd, ss_days)

_calc_dos(row) ==
    IF RLe(row.forecast_daily, R(0)) THEN NaN
    ELSE RDiv(row.available_qty_total, row.forecast_daily)

\* a slip: the guard on a non-positive forecast is left out
_decide_action_no_guard(row) ==
    IF RLe(row.available_qty_total, row.reorder_point) THEN "Order"
    ELSE IF RLe(row.available_qty_total, RAdd(row.reorder_point, row.review_buffer_qty))
    THEN "Review"
    ELSE "Hold"

\* a slip: a strict comparison with the reorder point
_decide_action_strict(row) ==
    IF RLe(row.forecast_daily, R(0)) THEN "Hold"
    ELSE IF RLt(row.available_qty_total, row.reorder_point) THEN "Order"
    ELSE IF RLe(row.available_qty_total, RAdd(row.reorder_point, row.review_buffer_qty))
    THEN "Review"
    ELSE "Hold"

_decide_action(row) ==
    LET fd == row.forecast_daily
        avail == row.available_qty_total
        rop == row.reorder_point
        buffer_qty == row.review_buffer_qty
    IN  IF RLe(fd, R(0)) THEN "Hold"
        ELSE IF RLe(avail, rop) THEN "Order"
        ELSE IF RLe(avail, RAdd(rop, buffer_qty)) THEN "Review"
        ELSE "Hold"

\* a slip: the quantity is computed whatever the decision
_calc_order_qty_any_decision(row) ==
    IF RLe(row.forecast_daily, R(0)) THEN 0
    ELSE LET raw_needed ==
                 RMax(RSub(row.target_stock_level, row.available_qty_total), R(0))
             order_qty == RMax(raw_needed, row.min_order_qty_lt)
         IN  IF RLt(R(0), order_qty) THEN PyRound(order_qty) ELSE 0

_calc_order_qty(row) ==
    IF row.inventory_decision # "Order" THEN 0
    ELSE IF RLe(row.forecast_daily, R(0)) THEN 0
    ELSE LET avail == row.available_qty_total
             target == row.target_stock_level
             min_lt == row.min_order_qty_lt
             raw_needed == RMax(RSub(target, avail), R(0))
             order_qty == RMax(raw_needed, min_lt)
         IN  IF RLt(R(0), order_qty) THEN PyRound(order_qty) ELSE 0

\* r with the fields of e added
Extend(r, e) ==
    [k \in (DOMAIN r) \cup (DOMAIN e) |-> IF k \in DOMAIN e THEN e[k] ELSE r[k]]

\* lines 106-121: the merged row with its numeric columns coerced
Coerced(m) ==
    [item_code |-> m.inv.item_code,
     iteam_name |-> m.inv.iteam_name,
     demand_total |-> m.fc.demand_total,
     abc_class |-> m.fc.abc_class,
     forecast_next_month |-> ToNumericFill0(m.fc.forecast_next_month),
     on_hand_dc |-> ToNumericFill0(m.inv.on_hand_dc),
     on_order_from_china |-> ToNumericFill0(m.inv.on_order_from_china),
     lead_time_import_days |-> ToNumericFill0(m.inv.lead_time_import_days),
     safety_stock_days |-> ToNumericFill0(m.inv.safety_stock_days),
     demand_std |-> ToNumericFill0(m.fc.demand_std)]

\* lines 108-121: forecast_daily, available_qty_total, demand_daily_std
WithDaily(r, days_per_month) ==
    Extend(r,
        [forecast_daily |-> RDiv(r.forecast_next_month, R(days_per_month)),
         available_qty_total |-> RAdd(r.on_hand_dc, r.on_order_from_china),
         demand_daily_std |-> RDiv(r.demand_std, RSqrt(R(days_per_month)))])

\* lines 136-139: service_level_effective
WithServiceLevel(r, has_abc, service_level) ==
    Extend(r,
        [service_level_effective |->
            IF has_abc THEN _map_service_level(r, service_level) ELSE service_level])

\* lines 161-170: safety_stock_qty, days_of_supply
WithSafetyStock(r, safety_stock_mode) ==
    Extend(r,
        [safety_stock_qty |-> _calc_safety_stock(r, safety_stock_mode),
         days_of_supply |-> _calc_dos(r)])

\* lines 173-183: reorder_point, demand_during_lead_time, review_buffer_qty
WithReorderPoint(r, review_days) ==
    Extend(r,
        [reorder_point |->
            RAdd(RMul(r.forecast_daily, r.lead_time_import_days), r.safety_stock_qty),
         demand_during_lead_time |-> RMul(r.forecast_daily, r.lead_time_import_days),
         review_buffer_qty |-> RMul(r.forecast_daily, R(review_days))])

\* line 180: min_order_qty_lt
WithMinOrderQty(r) ==
    Extend(r,
        [min_order_qty_lt |->
            RMax(RSub(r.demand_during_lead_time, r.available_qty_total), R(0))])

\* line 208: inventory_decision
WithDecision(r) == Extend(r, [inventory_decision |-> _decide_action(r)])

\* line 211: target_coverage_days
WithCoverage(r) ==
    Extend(r,
        [target_coverage_days |-> RAdd(r.lead_time_import_days, r.safety_stock_days)])

\* line 212: target_stock_level
WithTarget(r) ==
    Extend(r, [target_stock_level |-> RMul(r.forecast_daily, r.target_coverage_days)])

\* lines 230-235: suggested_order_qty and the echoed keyword arguments
WithOrderQty(r, service_level, safety_stock_mode, review_days) ==
    Extend(r,
        [suggested_order_qty |-> _calc_order_qty(r),
         service_level |-> service_level,
         safety_stock_mode |-> safety_stock_mode,
         review_days |-> review_days])

\* lines 106-235: the derived columns of one merged row, in the code's order
PlanRow(m, has_abc, days_per_month, service_level, safety_stock_mode, review_days) ==
    WithOrderQty(
        WithTarget(WithCoverage(WithDecision(WithMinOrderQty(
            WithReorderPoint(
                WithSafetyStock(
                    WithServiceLevel(WithDaily(Coerced(m), days_per_month),
                                     has_abc, service_level),
                    safety_stock_mode),
                review_days))))),
        service_level, safety_stock_mode, review_days)

\* item_code_key = normalize_item_code(item code), per row
WithKey(rows) ==
    [i \in 1..Len(rows) |->
        Extend(rows[i],
               [item_code_key |-> inventory_normalize_item_code(rows[i].item_code)])]

\* demand_total = pd.to_numeric(demand_total, errors="coerce").fillna(0.0)
WithDemandTotal(rows) ==
    [i \in 1..Len(rows) |->
        Extend(rows[i], [demand_total |-> ToNumericFill0(rows[i].demand_total)])]

\* The call.  sort_outcome picks, among the outcomes of the unstable sort of
\* the forecast rows, the one the run produced.  The result is the table
\* returned (error = "") or the ValueError raised (its table and column list).
plan_inventory_dc(df_f, df_i, par, sort_outcome) ==
    LET f_cols == Columns(df_f)
        i_cols == RenameAlias(Columns(df_i))
        missing_f == Missing(required_forecast_cols, f_cols)
        missing_i == Missing(required_inv_cols, i_cols)
        rows_f == DropDuplicates(sort_outcome)
        has_abc == "abc_class" \in f_cols
        merged == Merge(WithKey(df_i.rows), rows_f)
    IN  IF missing_f # <<>>
        THEN [error |-> "Missing columns in forecast df", missing |-> missing_f,
              rows |-> <<>>]
        ELSE IF missing_i # <<>>
        THEN [error |-> "Missing columns in inventory df", missing |-> missing_i,
              rows |-> <<>>]
        ELSE [error |-> "", missing |-> <<>>,
              rows |-> [k \in 1..Len(merged) |->
                          PlanRow(merged[k], has_abc, par.days_per_month,
                                  par.service_level, par.safety_stock_mode,
                                  par.review_days)]]

\* ------------------------------------------------------------------------
\* Forecast engine: a series grows month by month and is summarised
\* ------------------------------------------------------------------------
MaxMonths == 10
DemandValues == {-1, 0, 2}

InitForecast ==
    /\ demand \in {<<v>> : v \in DemandValues}
    /\ stats = <<>>
    /\ IdleRestForecast

\* one more month of demand for the key (the group's next row in month order)
AppendMonth ==
    /\ Len(demand) < MaxMonths
    /\ \E v \in DemandValues : demand' = Append(demand, v)
    /\ stats' = <<>>
    /\ UNCHANGED restForecast

\* stats = _compute_demand_stats_and_forecast(demand)
ComputeStats ==
    /\ stats = <<>>
    /\ stats' = <<_compute_demand_stats_and_forecast(demand)>>
    /\ UNCHANGED <<demand, restForecast>>

NextForecast == AppendMonth \/ ComputeStats

SpecForecast == InitForecast /\ [][NextForecast]_vars

\* ------------------------------------------------------------------------
\* Properties of the forecast engine
\* ------------------------------------------------------------------------
RECURSIVE SumRange(_, _, _)
SumRange(s, lo, hi) == IF lo > hi THEN 0 ELSE s[hi] + SumRange(s, lo, hi - 1)

CountIn(s, P(_)) == Cardinality({i \in 1..Len(s) : P(s[i])})

\* the rational q is the quotient num / den (den > 0)
IsQuotient(q, num, den) == q[2] > 0 /\ q[1] * den = num * q[2]

NonNegative(s) == \A i \in 1..Len(s) : s[i] >= 0

\* the forecast and method the documented precedence gives for series s
RuleHolds(s, f, method) ==
    LET n == Len(s)
        total == SumRange(s, 1, n)
        zeros == CountIn(s, LAMBDA v : v = 0)
        npos == CountIn(s, LAMBDA v : v > 0)
        possum == SumRange([i \in 1..n |-> IF s[i] > 0 THEN s[i] ELSE 0], 1, n)
        m == IF n < 9 THEN n ELSE 9
    IN  IF total = 0
        THEN f = <<0, 1>> /\ method = "zero_demand"
        ELSE IF 2 * zeros >= n /\ npos > 0
        THEN IsQuotient(f, possum, npos) /\ method = "avg_nonzero_intermittent"
        ELSE IF n >= 4
        THEN IF m <= 3
             THEN IsQuotient(f, SumRange(s, n - m + 1, n), m)
                  /\ method = "mean_last_" \o ToString(m)
             ELSE IsQuotient(f, SumRange(s, n - m + 1, n) + SumRange(s, n - 2, n),
                             (m - 3) + 2 * 3)
                  /\ method = "weighted_last_" \o ToString(m) \o "_old1_new2"
        ELSE IsQuotient(f, total, n) /\ method = "mean_all_few_months"

\* C1: for every non-empty series of non-negative demand values the forecast
\* and its method are the ones of the first rule that applies: zero total ->
\* 0 / zero_demand; at least half zeros and a positive value -> mean of the
\* positive values / avg_nonzero_intermittent; n >= 4 -> over the last
\* m = min(9, n) points the plain mean if m <= 3 (mean_last_m), else the mean
\* weighted 1 on the oldest m-3 and 2 on the last 3
\* (weighted_last_m_old1_new2); otherwise the mean of all points
\* (mean_all_few_months).
C1_ForecastRulePrecedence ==
    (stats # <<>> /\ Len(demand) > 0 /\ NonNegative(demand)) =>
        RuleHolds(demand, stats[1].forecast_next_month, stats[1].forecast_method)

\* a ten-month non-negative series forecast from its last nine months
C1_Witness ==
    /\ stats # <<>>
    /\ NonNegative(demand)
    /\ Len(demand) = 10
    /\ demand[1] = 2
    /\ stats[1].forecast_method = "weighted_last_9_old1_new2"

\* the integer nearest to q, a tie going to the even neighbour
NearestTiesEven(q) ==
    LET lo == q[1] \div q[2]
    IN  CHOOSE k \in {lo, lo + 1} :
            /\ 2 * Abs(k * q[2] - q[1]) <= q[2]
            /\ (2 * Abs(k * q[2] - q[1]) = q[2] => k % 2 = 0)

\* C2: for any series, negative values included, forecast_next_month_rounded
\* is max(round(forecast_next_month), 0) and so is never negative.
C2_RoundedForecastNonNegative ==
    stats # <<>> =>
        LET r == NearestTiesEven(stats[1].forecast_next_month)
        IN  /\ stats[1].forecast_next_month_rounded >= 0
            /\ stats[1].forecast_next_month_rounded = (IF r > 0 THEN r ELSE 0)

\* a series with a negative forecast, rounded to 0
C2_Witness ==
    /\ stats # <<>>
    /\ stats[1].forecast_next_month[1] < 0
    /\ stats[1].forecast_next_month_rounded = 0

\* ------------------------------------------------------------------------
\* Inventory planner: one call of plan_inventory_dc on bounded inputs
\* ------------------------------------------------------------------------
MaxInvRows == 2         \* snapshot rows in the join inputs
MaxFcRows == 2          \* forecast rows in the join inputs
MaxMissing == 2         \* columns left out of a table in the schema inputs

Range(f) == {f[i] : i \in DOMAIN f}
UpTo(S, k) == {T \in SUBSET S : Cardinality(T) <= k}
Headers(names, pad) == {<<c, pad>> : c \in names}

\* all tuples over S of length lo..hi
TuplesOf(S, lo, hi) == UNION {[1..n -> S] : n \in lo..hi}

Code12 == <<"1", "2">>
Code12p0 == <<"1", "2", ".", "0">>
Code12p0Padded == <<" ", "1", "2", ".", "0", "0">>
Code12p5 == <<"1", "2", ".", "5">>
Code7 == <<"7">>
CodeNan == <<"N", "a", "N">>
Code1234 == <<"1", "2", "3", "4">>
Code1234p0 == <<"1", "2", "3", "4", ".", "0">>
Code1c234 == <<"1", ",", "2", "3", "4">>
Code1e2 == <<"1", "e", "2">>
Code1Ep2 == <<"1", "E", "+", "2">>

ForecastColumnNames == Range(required_forecast_cols) \cup {"abc_class"}
InvColumnNames == Range(required_inv_cols)

DefaultParams ==
    [days_per_month |-> 25, service_level |-> Q(95, 100),
     safety_stock_mode |-> "stat", review_days |-> 7]

\* (1) one snapshot row and at most one forecast row for it, over a grid of
\* quantities, lead times, forecasts and keyword arguments
OnHandValues == {NaN, R(0), R(5), R(12), R(30)}
OnOrderValues == {R(0), R(4)}
LeadTimeValues == {R(0), R(4), R(9)}
SafetyDaysValues == {R(0), R(3)}
ForecastValues == {NaN, R(-25), R(0), Q(25, 2), R(25), R(50)}
StdValues == {R(0), R(5)}
AbcValues == {"A", "B", "C", " a "}
DaysPerMonthValues == {1, 25}
ServiceLevelValues == {Q(1, 2), Q(95, 100), Q(999, 1000)}
ReviewDaysValues == {0, 7}

RowInit ==
    \E h \in OnHandValues, o \in OnOrderValues, l \in LeadTimeValues,
       d \in SafetyDaysValues, dpm \in DaysPerMonthValues,
       sl \in ServiceLevelValues, mode \in {"stat", "days"}, rd \in ReviewDaysValues :
      \E frows \in {<<>>} \cup
            {<<[item_code |-> Code12p0, demand_total |-> R(100),
                forecast_next_month |-> fnm, demand_std |-> sd, abc_class |-> a]>> :
                fnm \in ForecastValues, sd \in StdValues, a \in AbcValues} :
        /\ df_product_forecast =
              [columns |-> Headers(ForecastColumnNames, ""), rows |-> frows]
        /\ df_inventory_dc =
              [columns |-> Headers(InvColumnNames, ""),
               rows |-> <<[item_code |-> Code12, iteam_name |-> "n1",
                           on_hand_dc |-> h, on_order_from_china |-> o,
                           lead_time_import_days |-> l, safety_stock_days |-> d]>>]
        /\ params = [days_per_month |-> dpm, service_level |-> sl,
                     safety_stock_mode |-> mode, review_days |-> rd]

\* (2) several snapshot and forecast rows whose codes share keys or not
InvCodes == {Code12, Code12p0, Code7, CodeNan}
FcCodes == {Code12, Code12p0Padded, Code12p5, CodeNan}
FcTotals == {1, 2}

JoinInit ==
    \E fr \in TuplesOf(FcCodes \X FcTotals, 0, MaxFcRows),
       ic \in TuplesOf(InvCodes, 1, MaxInvRows),
       abc \in {{}, {"abc_class"}} :
        /\ df_product_forecast =
              [columns |-> Headers(ForecastColumnNames \ abc, ""),
               rows |-> [k \in DOMAIN fr |->
                          [item_code |-> fr[k][1], demand_total |-> R(fr[k][2]),
                           forecast_next_month |-> R(25 * fr[k][2]),
                           demand_std |-> R(5), abc_class |-> "B"]]]
        /\ df_inventory_dc =
              [columns |-> Headers(InvColumnNames, ""),
               rows |-> [k \in DOMAIN ic |->
                          [item_code |-> ic[k], iteam_name |-> "n" \o ToString(k),
                           on_hand_dc |-> R(5), on_order_from_china |-> R(0),
                           lead_time_import_days |-> R(4),
                           safety_stock_days |-> R(3)]]]
        /\ params = DefaultParams

\* (3) tables with columns left out, headers padded with blanks or not
SchemaInit ==
    \E mf \in UpTo(ForecastColumnNames, MaxMissing),
       mi \in UpTo(InvColumnNames \cup {"item name"}, MaxMissing),
       pad \in {"", " "} :
        /\ df_product_forecast =
              [columns |-> Headers(ForecastColumnNames \ mf, pad),
               rows |-> <<[item_code |-> Code12, demand_total |-> R(2),
                           forecast_next_month |-> R(50), demand_std |-> R(5),
                           abc_class |-> "A"]>>]
        /\ df_inventory_dc =
              [columns |-> Headers((InvColumnNames \cup {"item name"}) \ mi, pad),
               rows |-> <<[item_code |-> Code12, iteam_name |-> "n1",
                           on_hand_dc |-> R(5), on_order_from_china |-> R(0),
                           lead_time_import_days |-> R(4),
                           safety_stock_days |-> R(3)]>>]
        /\ params = DefaultParams

\* (4) one snapshot row and one forecast row whose codes are written plainly,
\* with a trailing .0, with a thousands separator or with an exponent
WrittenInvCodes == {Code1234, Code1234p0, Code1c234, Code1e2, Code1Ep2}
WrittenFcCodes == {Code1234, Code1Ep2}

KeyInit ==
    \E ic \in WrittenInvCodes, fc \in WrittenFcCodes,
       h \in OnHandValues, mode \in {"stat", "days"} :
        /\ df_product_forecast =
              [columns |-> Headers(ForecastColumnNames, ""),
               rows |-> <<[item_code |-> fc, demand_total |-> R(100),
                           forecast_next_month |-> R(25), demand_std |-> R(5),
                           abc_class |-> "A"]>>]
        /\ df_inventory_dc =
              [columns |-> Headers(InvColumnNames, ""),
               rows |-> <<[item_code |-> ic, iteam_name |-> "n1",
                           on_hand_dc |-> h, on_order_from_china |-> R(0),
                           lead_time_import_days |-> R(4),
                           safety_stock_days |-> R(3)]>>]
        /\ params = [DefaultParams EXCEPT !.safety_stock_mode = mode]

InitPlan ==
    /\ RowInit \/ JoinInit \/ SchemaInit \/ KeyInit
    /\ df_plan = <<>>
    /\ IdleRestPlan

\* df_plan = plan_inventory_dc(df_product_forecast, df_inventory_dc, **params)
PlanInventoryDc ==
    /\ df_plan = <<>>
    /\ \E sort_outcome \in
            SortOutcomes(WithDemandTotal(WithKey(df_product_forecast.rows))) :
        df_plan' = <<plan_inventory_dc(df_product_forecast, df_inventory_dc,
                                       params, sort_outcome)>>
    /\ UNCHANGED <<df_product_forecast, df_inventory_dc, params, restPlan>>

NextPlan == PlanInventoryDc

SpecPlan == InitPlan /\ [][NextPlan]_vars

\* ------------------------------------------------------------------------
\* Properties of the inventory planner
\* ------------------------------------------------------------------------
Planned == df_plan # <<>> /\ df_plan[1].error = ""
PlanRows == IF df_plan = <<>> THEN <<>> ELSE df_plan[1].rows

\* C3: every plan row's inventory_decision is Hold if forecast_daily <= 0,
\* else Order if available_qty_total <= reorder_point, else Review if
\* available_qty_total <= reorder_point + review_buffer_qty, else Hold, with
\* reorder_point = forecast_daily * lead_time_import_days + safety_stock_qty
\* and review_buffer_qty = forecast_daily * review_days; no other value occurs.
C3_DecisionOrder ==
    \A k \in DOMAIN PlanRows :
        LET r == PlanRows[k]
            fd == r.forecast_daily
            avail == r.available_qty_total
            rop == RAdd(RMul(fd, r.lead_time_import_days), r.safety_stock_qty)
            buf == RMul(fd, R(r.review_days))
            pos == fd[1] > 0
        IN  /\ r.reorder_point = rop
            /\ r.review_buffer_qty = buf
            /\ r.inventory_decision \in {"Hold", "Review", "Order"}
            /\ r.inventory_decision = "Order" <=> (pos /\ RLe(avail, rop))
            /\ r.inventory_decision = "Review" <=>
                  (pos /\ RLt(rop, avail) /\ RLe(avail, RAdd(rop, buf)))
            /\ r.inventory_decision = "Hold" <=>
                  (~pos \/ RLt(RAdd(rop, buf), avail))

\* a row ordered with its stock exactly at the reorder point
C3_Witness ==
    \E k \in DOMAIN PlanRows :
        /\ PlanRows[k].forecast_daily[1] > 0
        /\ PlanRows[k].available_qty_total = PlanRows[k].reorder_point
        /\ PlanRows[k].inventory_decision = "Order"

\* C4: every plan row with forecast_daily <= 0 has decision Hold, suggested
\* order quantity 0, safety stock 0 and an undefined (NaN) days_of_supply,
\* whatever its stock, lead time and safety-stock days; every row with
\* forecast_daily > 0 has days_of_supply = available_qty_total / forecast_daily.
C4_NoDemandRow ==
    \A k \in DOMAIN PlanRows :
        LET r == PlanRows[k]
        IN  IF r.forecast_daily[1] <= 0
            THEN /\ r.inventory_decision = "Hold"
                 /\ r.suggested_order_qty = 0
                 /\ r.safety_stock_qty = <<0, 1>>
                 /\ IsNaN(r.days_of_supply)
            ELSE /\ ~IsNaN(r.days_of_supply)
                 /\ RMul(r.days_of_supply, r.forecast_daily) = r.available_qty_total

\* a row without demand that has stock, a lead time and safety-stock days
C4_Witness ==
    \E k \in DOMAIN PlanRows :
        /\ PlanRows[k].forecast_daily[1] < 0
        /\ PlanRows[k].available_qty_total[1] > 0
        /\ PlanRows[k].lead_time_import_days[1] > 0
        /\ PlanRows[k].safety_stock_days[1] > 0
        /\ PlanRows[k].inventory_decision = "Hold"

\* C5: suggested_order_qty is 0 unless the decision is Order; for Order it is
\* round(max(target_stock_level - available_qty_total, 0, min_order_qty_lt))
\* with target_stock_level = forecast_daily * (lead_time_import_days +
\* safety_stock_days) and min_order_qty_lt = max(forecast_daily *
\* lead_time_import_days - available_qty_total, 0); it is never negative.
C5_OrderQuantity ==
    \A k \in DOMAIN PlanRows :
        LET r == PlanRows[k]
            fd == r.forecast_daily
            avail == r.available_qty_total
            target == RMul(fd, RAdd(r.lead_time_import_days, r.safety_stock_days))
            lt_gap == RSub(RMul(fd, r.lead_time_import_days), avail)
            min_lt == IF lt_gap[1] > 0 THEN lt_gap ELSE <<0, 1>>
            gap == RSub(target, avail)
            need == IF RLt(gap, min_lt) THEN min_lt
                    ELSE IF gap[1] > 0 THEN gap ELSE <<0, 1>>
        IN  /\ r.suggested_order_qty >= 0
            /\ r.inventory_decision # "Order" => r.suggested_order_qty = 0
            /\ r.inventory_decision = "Order" =>
                  r.suggested_order_qty = NearestTiesEven(need)

\* an Order row whose need lies exactly between two integers
C5_Witness ==
    \E k \in DOMAIN PlanRows :
        LET r == PlanRows[k]
        IN  /\ r.inventory_decision = "Order"
            /\ r.suggested_order_qty = 4
            /\ RSub(r.target_stock_level, r.available_qty_total) = <<9, 2>>

\* the forecast rows whose code normalizes to the key of snapshot code c
MatchesOf(c) ==
    {j \in DOMAIN df_product_forecast.rows :
        inventory_normalize_item_code(df_product_forecast.rows[j].item_code)
            = inventory_normalize_item_code(c)}

\* C6: the plan has exactly one row per snapshot row, in the snapshot's order,
\* for any forecast table, several forecast rows with one key and snapshot rows
\* without a match included; an unmatched row has forecast_next_month = 0 and
\* demand_std = 0.
C6_OneRowPerSnapshotRow ==
    Planned =>
        /\ Len(PlanRows) = Len(df_inventory_dc.rows)
        /\ \A k \in DOMAIN PlanRows :
            /\ PlanRows[k].item_code = df_inventory_dc.rows[k].item_code
            /\ PlanRows[k].iteam_name = df_inventory_dc.rows[k].iteam_name
            /\ MatchesOf(df_inventory_dc.rows[k].item_code) = {} =>
                  /\ PlanRows[k].forecast_next_month = <<0, 1>>
                  /\ PlanRows[k].demand_std = <<0, 1>>

\* two forecast rows with one key, a snapshot row matching them and one
\* matching nothing
C6_Witness ==
    /\ Planned
    /\ Len(df_inventory_dc.rows) = 2
    /\ Cardinality(MatchesOf(df_inventory_dc.rows[1].item_code)) = 2
    /\ MatchesOf(df_inventory_dc.rows[2].item_code) = {}
    /\ Len(PlanRows) = 2

\* the required columns absent from a table whose headers are cols
Absent(required, cols) ==
    {required[i] : i \in {j \in DOMAIN required : \A h \in cols : h[1] # required[j]}}

\* the snapshot's headers with "item name" standing for "iteam name"
Aliased(cols) ==
    IF \E h \in cols : h[1] = "iteam name" THEN cols
    ELSE {IF h[1] = "item name" THEN <<"iteam name", h[2]>> ELSE h : h \in cols}

\* C7: when a required column is absent from the forecast table or from the
\* snapshot (after the "item name" alias), the call fails with an error listing
\* exactly the absent columns of the offending table, the forecast table first,
\* and returns no plan row; when none is absent it raises no such error.
C7_MissingColumns ==
    df_plan # <<>> =>
        LET absent_f == Absent(required_forecast_cols, df_product_forecast.columns)
            absent_i == Absent(required_inv_cols, Aliased(df_inventory_dc.columns))
            res == df_plan[1]
            listed == {res.missing[i] : i \in DOMAIN res.missing}
        IN  /\ Len(res.missing) = Cardinality(listed)
            /\ absent_f # {} =>
                  /\ res.error = "Missing columns in forecast df"
                  /\ listed = absent_f
                  /\ res.rows = <<>>
            /\ (absent_f = {} /\ absent_i # {}) =>
                  /\ res.error = "Missing columns in inventory df"
                  /\ listed = absent_i
                  /\ res.rows = <<>>
            /\ (absent_f = {} /\ absent_i = {}) =>
                  /\ res.error = ""
                  /\ listed = {}

\* both tables lack columns and the error names the forecast table's two
C7_Witness ==
    /\ df_plan # <<>>
    /\ df_plan[1].error = "Missing columns in forecast df"
    /\ Len(df_plan[1].missing) = 2
    /\ Absent(required_inv_cols, Aliased(df_inventory_dc.columns)) # {}

\* ------------------------------------------------------------------------
\* core_demand.build_product_level_forecast
\* ------------------------------------------------------------------------
\* str order: by code point, over the characters the model writes
Alphabet ==
    <<" ", "+", ",", "-", ".", "/", "0", "1", "2", "3", "4", "5", "6", "7", "8", "9",
      "A", "B", "E", "J", "L", "N", "O", "P", "Q", "R", "T",
      "a", "e", "l", "n", "o", "t", "x">>
CharOrd(c) == CHOOSE i \in DOMAIN Alphabet : Alphabet[i] = c

RECURSIVE TextLess(_, _)
TextLess(a, b) ==
    IF b = <<>> THEN FALSE
    ELSE IF a = <<>> THEN TRUE
    ELSE IF Head(a) = Head(b) THEN TextLess(Tail(a), Tail(b))
    ELSE CharOrd(Head(a)) < CharOrd(Head(b))

\* the texts of S in ascending order (the order of groupby keys)
RECURSIVE SortedTexts(_)
SortedTexts(S) ==
    IF S = {} THEN <<>>
    ELSE LET least == CHOOSE x \in S : \A y \in S \ {x} : TextLess(x, y)
         IN  <<least>> \o SortedTexts(S \ {least})

\* df["item code"] = df["item code"].apply(normalize_item_code)
NormalizeCodes(rows) ==
    [i \in DOMAIN rows |->
        Extend(rows[i], [item_code |-> normalize_item_code(rows[i].item_code)])]

CodesOf(rows) == {rows[i].item_code : i \in DOMAIN rows}
RowsOf(rows, c) == SelectSeq(rows, LAMBDA r : r.item_code = c)

\* the outcomes of most_frequent_name: "" without a non-empty name, else a
\* name of the highest count (value_counts orders equal counts arbitrarily)
most_frequent_name(group) ==
    LET names == {Strip(group[i].iteam_name) : i \in DOMAIN group} \ {<<>>}
        Count(v) == Cardinality({i \in DOMAIN group : Strip(group[i].iteam_name) = v})
    IN  IF names = {} THEN {<<>>}
        ELSE {v \in names : \A w \in names : Count(w) <= Count(v)}

\* the outcomes of name_map: one name per item code
NameMaps(rows) ==
    {nm \in [CodesOf(rows) ->
                UNION {most_frequent_name(RowsOf(rows, c)) : c \in CodesOf(rows)}] :
        \A c \in CodesOf(rows) : nm[c] \in most_frequent_name(RowsOf(rows, c))}

\* a slip: the last record of a (code, month) stands for the group
LastDemandOf(rows, c, month) ==
    LET g == SelectSeq(rows, LAMBDA r : r.item_code = c /\ r.month = month)
    IN  g[Len(g)].demand

\* groupby(["item code", "month"])["demand"].sum() at (c, month)
DemandOf(rows, c, month) ==
    LET g == SelectSeq(rows, LAMBDA r : r.item_code = c /\ r.month = month)
    IN  SeqSum([i \in DOMAIN g |-> g[i].demand])

\* the months of code c in ascending order
MonthsOf(rows, c) == SortedTexts({RowsOf(rows, c)[i].month : i \in DOMAIN RowsOf(rows, c)})

\* prod_month of code c, sorted by month: the series _summarize hands on
Series(rows, c) ==
    [k \in DOMAIN MonthsOf(rows, c) |-> DemandOf(rows, c, MonthsOf(rows, c)[k])]

\* _summarize of the group of code c
Summarize(rows, c, name) ==
    Extend(_compute_demand_stats_and_forecast(Series(rows, c)),
           [item_code |-> c, iteam_name |-> name, months_list |-> MonthsOf(rows, c)])

\* prod_month.groupby(["item code", "iteam name"]).apply(_summarize).reset_index()
Summary(rows, name_map) ==
    [k \in DOMAIN SortedTexts(CodesOf(rows)) |->
        Summarize(rows, SortedTexts(CodesOf(rows))[k],
                  name_map[SortedTexts(CodesOf(rows))[k]])]

\* lines 370-372: of rows with one item code the one of largest demand_total
\* is kept (name_map holds one name per code, so no code comes twice)
DedupSummary(summary) ==
    IF \A i, j \in DOMAIN summary : i # j => summary[i].item_code # summary[j].item_code
    THEN summary
    ELSE Pick(summary,
              {i \in DOMAIN summary :
                  \A j \in DOMAIN summary :
                      (j # i /\ summary[j].item_code = summary[i].item_code) =>
                          \/ summary[j].demand_total < summary[i].demand_total
                          \/ (summary[j].demand_total = summary[i].demand_total /\ i < j)},
              1)

\* summary["demand_total"].sum()
TotalAll(summary) == SeqSum([k \in DOMAIN summary |-> summary[k].demand_total])

\* the outcomes of summary.sort_values("demand_total", ascending=False): rows
\* of equal demand_total in any order
TotalDescOutcomes(rows) ==
    LET n == Len(rows)
    IN  {[i \in 1..n |-> rows[p[i]]] :
            p \in {q \in [1..n -> 1..n] :
                    /\ \A i, j \in 1..n : i # j => q[i] # q[j]
                    /\ \A i \in 1..(n - 1) :
                          rows[q[i + 1]].demand_total <= rows[q[i]].demand_total}}

\* a slip: strict comparisons with the class limits
_abc_strict(x) ==
    IF RLt(x, Q(8, 10)) THEN "A" ELSE IF RLt(x, Q(95, 100)) THEN "B" ELSE "C"

_abc(x) ==
    IF RLe(x, Q(8, 10)) THEN "A" ELSE IF RLe(x, Q(95, 100)) THEN "B" ELSE "C"

\* series.cumsum()
RECURSIVE CumSum(_)
CumSum(s) ==
    IF Len(s) <= 1 THEN s
    ELSE Append(CumSum(SubSeq(s, 1, Len(s) - 1)),
                RAdd(CumSum(SubSeq(s, 1, Len(s) - 1))[Len(s) - 1], s[Len(s)]))

DemandShares(sorted, total_all) ==
    [k \in DOMAIN sorted |-> Q(sorted[k].demand_total, total_all)]

\* lines 377-389: the classes of the sorted summary
WithAbc(sorted, total_all) ==
    [k \in DOMAIN sorted |->
        Extend(sorted[k],
               [demand_share |-> DemandShares(sorted, total_all)[k],
                cum_demand_share |-> CumSum(DemandShares(sorted, total_all))[k],
                abc_class |-> _abc(CumSum(DemandShares(sorted, total_all))[k])])]

\* lines 391-393: no demand at all
WithoutAbc(summary) ==
    [k \in DOMAIN summary |->
        Extend(summary[k],
               [demand_share |-> R(0), cum_demand_share |-> R(0), abc_class |-> "C"])]

\* The call.  name_map and sort_outcome pick the outcomes of the two
\* arbitrary orders (equal name counts, equal demand totals) the run produced.
build_product_level_forecast(df, name_map, sort_outcome) ==
    IF TotalAll(DedupSummary(Summary(NormalizeCodes(df), name_map))) > 0
    THEN WithAbc(sort_outcome,
                 TotalAll(DedupSummary(Summary(NormalizeCodes(df), name_map))))
    ELSE WithoutAbc(DedupSummary(Summary(NormalizeCodes(df), name_map)))

\* ------------------------------------------------------------------------
\* Company-level forecast: one call of build_product_level_forecast
\* ------------------------------------------------------------------------
MaxRecords == 3         \* records of the demand-long table
MaxProducts == 3        \* products of the one-record-per-product tables

Month(k) == <<"2", "0", "2", "5", "-", "0", ToString(k)>>
LongMonths == {Month(1), Month(2)}
\* a record's item code as written, branch and demand
LongEntries ==
    {<<Code12, "B1", 1>>, <<Code12, "B2", 2>>, <<Code12p0, "B2", 2>>, <<Code7, "B1", 1>>}
\* totals on which the binary64 shares and their running sums fall on the same
\* side of 0.80 and 0.95 as the exact ones: (4, 1) meets 0.80, (15, 4, 1) 0.95
ProductDemands == {0, 1, 4, 15, 19}

\* the name a sheet gives with a code as written
NameFor(code) ==
    IF code = Code12 THEN <<"P">> ELSE IF code = Code12p0 THEN <<"Q", " ">> ELSE <<>>

\* (1) a few records over codes with one or several spellings, two months
\* and two branches
LongInit ==
    \E t \in TuplesOf(LongEntries \X LongMonths, 1, MaxRecords) :
        df_long = [k \in DOMAIN t |->
                     [item_code |-> t[k][1][1], month |-> t[k][2], branch |-> t[k][1][2],
                      demand |-> t[k][1][3], iteam_name |-> NameFor(t[k][1][1])]]

\* (2) one record per product, over demands that meet the class limits
ProductInit ==
    \E t \in TuplesOf(ProductDemands, 1, MaxProducts) :
        df_long = [k \in DOMAIN t |->
                     [item_code |-> IntChars(k), month |-> Month(1), branch |-> "B1",
                      demand |-> t[k], iteam_name |-> <<"P">>]]

InitProduct ==
    /\ LongInit \/ ProductInit
    /\ df_product_fc = <<>>
    /\ IdleRestProduct

\* df_product_fc = build_product_level_forecast(df_long)
BuildProductLevelForecast ==
    /\ df_product_fc = <<>>
    /\ \E name_map \in NameMaps(NormalizeCodes(df_long)) :
         \E sort_outcome \in
               TotalDescOutcomes(DedupSummary(Summary(NormalizeCodes(df_long), name_map))) :
           df_product_fc' = <<build_product_level_forecast(df_long, name_map, sort_outcome)>>
    /\ UNCHANGED <<df_long, restProduct>>

NextProduct == BuildProductLevelForecast

SpecProduct == InitProduct /\ [][NextProduct]_vars

\* ------------------------------------------------------------------------
\* Properties of the company-level forecast
\* ------------------------------------------------------------------------
Built == df_product_fc # <<>>
ProductRows == df_product_fc[1]

\* the canonical item codes of the demand-long table
CanonicalCodes == {normalize_item_code(df_long[i].item_code) : i \in DOMAIN df_long}

\* the demand of the first n records whose code is c in canonical form
RECURSIVE DemandOfCode(_, _)
DemandOfCode(c, n) ==
    IF n = 0 THEN 0
    ELSE DemandOfCode(c, n - 1)
         + (IF normalize_item_code(df_long[n].item_code) = c THEN df_long[n].demand ELSE 0)

\* the demand_total of the first n products
RECURSIVE TotalOfProducts(_)
TotalOfProducts(n) ==
    IF n = 0 THEN 0 ELSE TotalOfProducts(n - 1) + ProductRows[n].demand_total

\* C8: a company-level forecast of a single product with positive total
\* demand gives that product abc_class "A".
C8_SingleProductClassA ==
    (Built /\ Len(ProductRows) = 1 /\ ProductRows[1].demand_total > 0)
        => ProductRows[1].abc_class = "A"

\* C9: with a positive sum of demand_total the products are in descending
\* order of demand_total, demand_share is demand_total / sum,
\* cum_demand_share is the running sum of the shares in that order, and the
\* class is A up to 0.80, B up to 0.95 and C above; with sum 0 every product
\* has share 0, cumulative share 0 and class C.  Every product has one class
\* of A, B, C.
C9_AbcClassification ==
    Built =>
        LET n == Len(ProductRows)
            sum == TotalOfProducts(n)
            cum(k) == ProductRows[k].cum_demand_share
        IN  /\ \A k \in 1..n : ProductRows[k].abc_class \in {"A", "B", "C"}
            /\ sum > 0 =>
                 /\ \A k \in 1..(n - 1) :
                       ProductRows[k + 1].demand_total <= ProductRows[k].demand_total
                 /\ \A k \in 1..n :
                       /\ ProductRows[k].demand_share[2] > 0
                       /\ ProductRows[k].demand_share[1] * sum
                             = ProductRows[k].demand_total * ProductRows[k].demand_share[2]
                       /\ cum(k)[2] > 0
                       /\ cum(k)[1] * sum = TotalOfProducts(k) * cum(k)[2]
                       /\ (ProductRows[k].abc_class = "A") <=> (5 * cum(k)[1] <= 4 * cum(k)[2])
                       /\ (ProductRows[k].abc_class = "B") <=>
                             /\ 5 * cum(k)[1] > 4 * cum(k)[2]
                             /\ 20 * cum(k)[1] <= 19 * cum(k)[2]
            /\ sum = 0 =>
                 \A k \in 1..n :
                    /\ ProductRows[k].demand_share = R(0)
                    /\ cum(k) = R(0)
                    /\ ProductRows[k].abc_class = "C"

\* three products given in ascending order of demand, classified A, B, C with
\* the second exactly at 0.95
C9_Witness ==
    /\ Built
    /\ Len(df_long) = 3
    /\ df_long[1].demand = 1 /\ df_long[2].demand = 4 /\ df_long[3].demand = 15
    /\ Len(ProductRows) = 3
    /\ ProductRows[1].demand_total = 15 /\ ProductRows[1].abc_class = "A"
    /\ ProductRows[2].cum_demand_share = Q(19, 20) /\ ProductRows[2].abc_class = "B"
    /\ ProductRows[3].cum_demand_share = R(1) /\ ProductRows[3].abc_class = "C"

\* C10: the company-level forecast has exactly one row per distinct canonical
\* item code of the demand-long table, whose demand_total is the sum of
\* demand over all records of that code, across branches and months.
C10_OneRowPerCodeWithAllDemand ==
    Built =>
        /\ \A c \in CanonicalCodes :
              Cardinality({k \in DOMAIN ProductRows : ProductRows[k].item_code = c}) = 1
        /\ \A k \in DOMAIN ProductRows :
              /\ ProductRows[k].item_code \in CanonicalCodes
              /\ ProductRows[k].demand_total
                    = DemandOfCode(ProductRows[k].item_code, Len(df_long))

\* one code written two ways, in two branches of one month and in a second
\* month, with another code beside it: two rows, the first code's holding
\* all three of its records
C10_Witness ==
    /\ Built
    /\ Len(df_long) = 3
    /\ \E i, j, k \in DOMAIN df_long :
          /\ df_long[i].item_code = Code12 /\ df_long[j].item_code = Code12p0
          /\ df_long[i].month = df_long[j].month
          /\ df_long[i].branch # df_long[j].branch
          /\ df_long[k].item_code = Code7
    /\ Len(ProductRows) = 2
    /\ \E r \in DOMAIN ProductRows :
          /\ ProductRows[r].item_code = Code12
          /\ ProductRows[r].demand_total = 3
          /\ ProductRows[r].months_count = 1

\* ------------------------------------------------------------------------
\* core_demand.standardize_month_label
\* ------------------------------------------------------------------------
IsSep(c) == c \in {"-", "/"}

RECURSIVE ZeroPad(_, _)
ZeroPad(s, width) == IF Len(s) >= width THEN s ELSE ZeroPad(<<"0">> \o s, width)

\* f"{int(t):0{width}d}" of a tuple of digits
FormatInt(t, width) == ZeroPad(StripLeadingZeros(t), width)

\* ^(\d{4})[-/](\d{1,2})$
YearFirst(s) ==
    /\ Len(s) \in 6..7
    /\ AllDigits(SubSeq(s, 1, 4))
    /\ IsSep(s[5])
    /\ AllDigits(SubSeq(s, 6, Len(s)))

\* ^(\d{1,2})[-/](\d{4})$
MonthFirst(s) ==
    /\ Len(s) \in 6..7
    /\ AllDigits(SubSeq(s, 1, Len(s) - 5))
    /\ IsSep(s[Len(s) - 4])
    /\ AllDigits(SubSeq(s, Len(s) - 3, Len(s)))

standardize_month_label(label) ==
    IF YearFirst(Strip(label))
    THEN FormatInt(SubSeq(Strip(label), 1, 4), 4) \o <<"-">>
         \o FormatInt(SubSeq(Strip(label), 6, Len(Strip(label))), 2)
    ELSE IF MonthFirst(Strip(label))
    THEN FormatInt(SubSeq(Strip(label), Len(Strip(label)) - 3, Len(Strip(label))), 4)
         \o <<"-">> \o FormatInt(SubSeq(Strip(label), 1, Len(Strip(label)) - 5), 2)
    ELSE Strip(label)

\* ------------------------------------------------------------------------
\* core_demand.build_long_from_wide_month
\* ------------------------------------------------------------------------
\* A month sheet is [iteam_name |-> the cells of the "iteam name" column,
\* item_code |-> the cells of the "item code" column, others |-> the other
\* columns in order, each [header |-> its text, cells |-> its cells]].  The
\* cells of the two id columns are texts (str(x) of the value); a cell of
\* another column is [kind |-> "num", value |-> n] for the number n, and
\* of kind "blank" or "text" for an empty cell or a text that is no number.

\* sub in s
Contains(s, sub) ==
    \E i \in 1..(Len(s) - Len(sub) + 1) : SubSeq(s, i, i + Len(sub) - 1) = sub

Total == <<"t", "o", "t", "a", "l">>

\* series.str.strip().str.replace(".", "", regex=False).str.isdigit()
LooksNumeric(cell) ==
    RemoveChar(Strip(cell), ".") # <<>> /\ AllDigits(RemoveChar(Strip(cell), "."))

\* series.head(10)
Head10(col) == SubSeq(col, 1, Min(10, Len(col)))

DigitsCount(sample) == Cardinality({i \in DOMAIN sample : LooksNumeric(sample[i])})

\* lines 92-100: name_digits_ratio > 0.8 and code_digits_ratio < 0.5
ColumnsReversed(df) ==
    /\ 10 * DigitsCount(Head10(df.iteam_name)) > 8 * Len(Head10(df.iteam_name))
    /\ 2 * DigitsCount(Head10(df.item_code)) < Len(Head10(df.item_code))

\* lines 101-103: the two id columns change places
SwapColumns(df) ==
    IF ColumnsReversed(df)
    THEN [df EXCEPT !.iteam_name = df.item_code, !.item_code = df.iteam_name]
    ELSE df

_is_total_col(c) == Contains(Lower(Strip(c)), Total)

\* lines 85, 111-115: the stripped headers that are no total columns
branch_cols(df) ==
    SelectSeq([k \in DOMAIN df.others |->
                  [header |-> Strip(df.others[k].header), cells |-> df.others[k].cells]],
              LAMBDA col : ~_is_total_col(col.header))

\* df.melt(id_vars, value_vars): column by column, the rows in sheet order
RECURSIVE Melt(_, _)
Melt(df, cols) ==
    IF cols = <<>> THEN <<>>
    ELSE [i \in DOMAIN df.item_code |->
             [iteam_name |-> df.iteam_name[i], item_code |-> df.item_code[i],
              branch |-> Strip(Head(cols).header), demand |-> Head(cols).cells[i]]]
         \o Melt(df, Tail(cols))

\* pd.to_numeric(cell, errors="coerce").notna()
IsNumber(cell) == cell.kind = "num"

\* a slip: a zero counts as no entry
KeptDemandNonZero(r) == IsNumber(r.demand) /\ r.demand.value # 0

\* line 144
KeptDemand(r) == IsNumber(r.demand)

\* lines 128-137: codes normalised, names stripped, rows without a code and
\* total rows dropped
WithoutTotals(long_df) ==
    SelectSeq([i \in DOMAIN long_df |->
                  Extend(long_df[i],
                         [item_code |-> normalize_item_code(long_df[i].item_code),
                          iteam_name |-> Strip(long_df[i].iteam_name)])],
              LAMBDA r : Strip(r.item_code) # <<>> /\ ~Contains(Lower(r.iteam_name), Total))

\* lines 143-150: rows without a number dropped, the month stamped
Stamped(long_df, month_label_std) ==
    LET kept == SelectSeq(long_df, KeptDemand)
    IN  [i \in DOMAIN kept |->
            [month |-> month_label_std, branch |-> kept[i].branch,
             item_code |-> kept[i].item_code, iteam_name |-> kept[i].iteam_name,
             demand |-> kept[i].demand.value]]

build_long_from_wide_month(df_wide, month_label) ==
    Stamped(WithoutTotals(Melt(SwapColumns(df_wide), branch_cols(SwapColumns(df_wide)))),
            standardize_month_label(month_label))

\* ------------------------------------------------------------------------
\* core_demand.build_demand_long
\* ------------------------------------------------------------------------
\* month_dfs is the tuple of the dict's items in insertion order, each
\* [month_label |-> the key, df_wide |-> the sheet].

\* lines 162-165
AllMonths(mdfs) ==
    [k \in DOMAIN mdfs |->
        build_long_from_wide_month(mdfs[k].df_wide, mdfs[k].month_label)]

\* pd.concat(all_months, ignore_index=True)
RECURSIVE Concat(_)
Concat(tables) == IF tables = <<>> THEN <<>> ELSE Head(tables) \o Concat(Tail(tables))

\* lines 170-177: texts stripped, codes normalised again (every demand is a
\* number by now)
Cleaned(rows) ==
    [i \in DOMAIN rows |->
        [month |-> Strip(rows[i].month), branch |-> Strip(rows[i].branch),
         item_code |-> normalize_item_code(rows[i].item_code),
         iteam_name |-> Strip(rows[i].iteam_name), demand |-> rows[i].demand]]

KeyOf(r) == <<r.month, r.branch, r.item_code>>
KeysOf(rows) == {KeyOf(rows[i]) : i \in DOMAIN rows}

\* a slip: the last row of a group stands for the group
GroupLast(rows, key) ==
    LET g == SelectSeq(rows, LAMBDA r : KeyOf(r) = key)
    IN  g[Len(g)].demand

\* groupby(["month", "branch", "item code"])["demand"].sum() at key
GroupSum(rows, key) ==
    LET g == SelectSeq(rows, LAMBDA r : KeyOf(r) = key)
    IN  SeqSum([i \in DOMAIN g |-> g[i].demand])

\* the order of sort_values(["item code", "branch", "month"])
KeyBefore(a, b) ==
    \/ TextLess(a[3], b[3])
    \/ a[3] = b[3] /\ TextLess(a[2], b[2])
    \/ a[3] = b[3] /\ a[2] = b[2] /\ TextLess(a[1], b[1])

RECURSIVE SortedKeys(_)
SortedKeys(S) ==
    IF S = {} THEN <<>>
    ELSE LET least == CHOOSE x \in S : \A y \in S \ {x} : KeyBefore(x, y)
         IN  <<least>> \o SortedKeys(S \ {least})

\* lines 188-194: one row per key, with the name of its code
Aggregated(rows, name_map) ==
    [k \in DOMAIN SortedKeys(KeysOf(rows)) |->
        [month |-> SortedKeys(KeysOf(rows))[k][1],
         branch |-> SortedKeys(KeysOf(rows))[k][2],
         item_code |-> SortedKeys(KeysOf(rows))[k][3],
         iteam_name |-> name_map[SortedKeys(KeysOf(rows))[k][3]],
         demand |-> GroupSum(rows, SortedKeys(KeysOf(rows))[k])]]

\* The call.  name_map picks the outcome of most_frequent_name for each code.
build_demand_long(mdfs, name_map) == Aggregated(Cleaned(Concat(AllMonths(mdfs))), name_map)

\* ------------------------------------------------------------------------
\* Demand aggregation: one call of build_demand_long on bounded sheets
\* ------------------------------------------------------------------------
MaxSheetRows == 2       \* item rows of the one-sheet inputs
MaxSheets == 2          \* sheets of the several-months inputs

Num(n) == [kind |-> "num", value |-> n]
Blank == [kind |-> "blank", value |-> 0]
NoNumber == [kind |-> "text", value |-> 0]

NameP == <<"P">>
NameTotal == <<" ", "T", "o", "t", "a", "l">>
NameQ == <<"Q">>
NameGrandTotal == <<"t", "o", "t", "a", "l", " ", "x">>

\* the "iteam name" and "item code" cells of a sheet row
IdCells ==
    {<<NameP, Code12>>, <<NameQ, Code12p0>>, <<NameP, CodeNan>>, <<NameTotal, Code12>>,
     <<NameP, Code7>>, <<Code7, NameP>>, <<Code12p0, NameGrandTotal>>}
\* the cells of a sheet row in the two other columns
DemandCells == {<<Num(0), Blank>>, <<Num(3), NoNumber>>, <<Num(3), Num(4)>>}
\* the headers of the two other columns
HeaderPairs ==
    {<<<<"B", "1">>, <<"B", "2">>>>,
     <<<<" ", "B", "1", " ">>, <<"B", "2", " ", "T", "O", "t", "a", "l">>>>}
LabelValues ==
    {Month(1), <<"0", "1", "-", "2", "0", "2", "5">>, <<"2", "0", "2", "5", "/", "1">>,
     Month(2), <<"J", "a", "n">>}

\* (1) one sheet of a few rows, over names, codes, cells and headers
SheetInit ==
    \E rows \in TuplesOf(IdCells \X DemandCells, 1, MaxSheetRows),
       h \in HeaderPairs :
        month_dfs =
            <<[month_label |-> <<" ", "1", "/", "2", "0", "2", "5">>,
               df_wide |->
                 [iteam_name |-> [i \in DOMAIN rows |-> rows[i][1][1]],
                  item_code |-> [i \in DOMAIN rows |-> rows[i][1][2]],
                  others |-> [c \in 1..2 |->
                               [header |-> h[c],
                                cells |-> [i \in DOMAIN rows |-> rows[i][2][c]]]]]]>>

\* (2) several one-row sheets under labels that are distinct dict keys
MonthsInit ==
    \E labels \in {t \in TuplesOf(LabelValues, 1, MaxSheets) :
                      \A i, j \in DOMAIN t : i # j => t[i] # t[j]} :
      \E cells \in [DOMAIN labels -> {Code12, Code12p0} \X {1, 2}] :
        month_dfs =
            [k \in DOMAIN labels |->
               [month_label |-> labels[k],
                df_wide |->
                  [iteam_name |-> <<NameP>>, item_code |-> <<cells[k][1]>>,
                   others |-> <<[header |-> <<"B", "1">>,
                                 cells |-> <<Num(cells[k][2])>>]>>]]]

InitLong ==
    /\ SheetInit \/ MonthsInit
    /\ all_months = <<>>
    /\ demand_long = <<>>
    /\ IdleRestLong

\* df_long = build_demand_long(month_dfs)
BuildDemandLong ==
    /\ all_months = <<>>
    /\ all_months' = AllMonths(month_dfs)
    /\ \E name_map \in NameMaps(Cleaned(Concat(AllMonths(month_dfs)))) :
         demand_long' = <<build_demand_long(month_dfs, name_map)>>
    /\ UNCHANGED <<month_dfs, restLong>>

NextLong == BuildDemandLong

SpecLong == InitLong /\ [][NextLong]_vars

\* ------------------------------------------------------------------------
\* Properties of the demand aggregation
\* ------------------------------------------------------------------------
LongBuilt == demand_long # <<>>
DemandLong == demand_long[1]

\* the rows that survive the transformation of their sheet, sheet by sheet
RECURSIVE SurvivingRows(_)
SurvivingRows(n) == IF n = 0 THEN <<>> ELSE SurvivingRows(n - 1) \o all_months[n]

\* the (month, branch, item_code) of a surviving row
SurvivingKey(r) == <<r.month, r.branch, normalize_item_code(r.item_code)>>

\* the demand of the first n surviving rows with the key
RECURSIVE SurvivingDemand(_, _)
SurvivingDemand(key, n) ==
    IF n = 0 THEN 0
    ELSE SurvivingDemand(key, n - 1)
         + (IF SurvivingKey(SurvivingRows(Len(all_months))[n]) = key
            THEN SurvivingRows(Len(all_months))[n].demand ELSE 0)

RECURSIVE DemandUpTo(_, _)
DemandUpTo(rows, n) == IF n = 0 THEN 0 ELSE DemandUpTo(rows, n - 1) + rows[n].demand

\* C11: the table build_demand_long returns has at most one record per
\* (month, branch, item_code); its demand is the sum of the demand of every
\* surviving input row with that key, every surviving row has its record,
\* and the grand total of demand is preserved.
C11_UniqueKeySummedDemand ==
    LongBuilt =>
        /\ \A i, j \in DOMAIN DemandLong :
              i # j =>
                  <<DemandLong[i].month, DemandLong[i].branch, DemandLong[i].item_code>>
                  # <<DemandLong[j].month, DemandLong[j].branch, DemandLong[j].item_code>>
        /\ \A k \in DOMAIN DemandLong :
              DemandLong[k].demand
                  = SurvivingDemand(<<DemandLong[k].month, DemandLong[k].branch,
                                      DemandLong[k].item_code>>,
                                    Len(SurvivingRows(Len(all_months))))
        /\ \A i \in DOMAIN SurvivingRows(Len(all_months)) :
              \E k \in DOMAIN DemandLong :
                  <<DemandLong[k].month, DemandLong[k].branch, DemandLong[k].item_code>>
                  = SurvivingKey(SurvivingRows(Len(all_months))[i])
        /\ DemandUpTo(DemandLong, Len(DemandLong))
              = DemandUpTo(SurvivingRows(Len(all_months)),
                           Len(SurvivingRows(Len(all_months))))

\* one sheet with the item 12 on two rows, written "12" and "12.0", both
\* with 3 in branch B1 and one with 4 in B2: one record of 6 and one of 4
C11_Witness ==
    /\ LongBuilt
    /\ Len(month_dfs) = 1
    /\ month_dfs[1].df_wide.item_code = <<Code12, Code12p0>>
    /\ month_dfs[1].df_wide.others[1].cells = <<Num(3), Num(3)>>
    /\ Len(DemandLong) = 2
    /\ DemandLong[1].item_code = Code12 /\ DemandLong[1].branch = <<"B", "1">>
    /\ DemandLong[1].demand = 6
    /\ DemandLong[2].demand = 4

\* the cells (row i, column c) of sheet k that yield a row: the column is no
\* total column, the row is no total row and has a code, the cell a number
\* (the id columns taken after the column swap of lines 92-103)
YieldingCells(k) ==
    LET df == SwapColumns(month_dfs[k].df_wide)
    IN  {p \in (DOMAIN df.item_code) \X (DOMAIN df.others) :
            /\ ~Contains(Lower(df.others[p[2]].header), Total)
            /\ ~Contains(Lower(df.iteam_name[p[1]]), Total)
            /\ normalize_item_code(df.item_code[p[1]]) # <<>>
            /\ df.others[p[2]].cells[p[1]].kind = "num"}

\* the row the cell p of sheet k yields
RowOfCell(k, p) ==
    LET df == SwapColumns(month_dfs[k].df_wide)
    IN  [month |-> standardize_month_label(month_dfs[k].month_label),
         branch |-> Strip(df.others[p[2]].header),
         item_code |-> normalize_item_code(df.item_code[p[1]]),
         iteam_name |-> Strip(df.iteam_name[p[1]]),
         demand |-> df.others[p[2]].cells[p[1]].value]

ZSteps ==
    {<<999, 309>>, <<990, 233>>, <<980, 205>>, <<950, 164>>, <<900, 128>>, <<850, 104>>}

\* the z of the table for service level sl
StepZ(sl) ==
    LET met == {st \in ZSteps : 1000 * sl[1] >= st[1] * sl[2]}
    IN  IF met = {} THEN <<0, 1>>
        ELSE Q((CHOOSE st \in met : \A o \in met : o[1] <= st[1])[2], 100)

\* C13: every plan row's safety_stock_qty is 0 if forecast_daily <= 0;
\* else forecast_daily * safety_stock_days in mode "days"; else, in mode
\* "stat", z * demand_daily_std * sqrt(lead_time_import_days) when z, the
\* daily std and the lead time are all positive, and forecast_daily *
\* safety_stock_days otherwise, z being the table value of the row's
\* effective service level.
C13_SafetyStock ==
    \A k \in DOMAIN PlanRows :
        LET r == PlanRows[k]
            z == StepZ(r.service_level_effective)
            by_days == RMul(r.forecast_daily, r.safety_stock_days)
        IN  IF r.forecast_daily[1] <= 0 THEN r.safety_stock_qty = <<0, 1>>
            ELSE IF r.safety_stock_mode = "days" THEN r.safety_stock_qty = by_days
            ELSE IF z[1] > 0 /\ r.demand_daily_std[1] > 0 /\ r.lead_time_import_days[1] > 0
            THEN /\ r.safety_stock_qty[1] > 0
                 /\ RMul(r.safety_stock_qty, r.safety_stock_qty)
                       = RMul(RMul(RMul(z, z),
                                   RMul(r.demand_daily_std, r.demand_daily_std)),
                              r.lead_time_import_days)
            ELSE r.safety_stock_qty = by_days

\* a "stat" row with a daily std but no lead time, on the days formula, which
\* is positive
C13_Witness ==
    \E k \in DOMAIN PlanRows :
        /\ PlanRows[k].safety_stock_mode = "stat"
        /\ PlanRows[k].forecast_daily[1] > 0
        /\ PlanRows[k].demand_daily_std[1] > 0
        /\ StepZ(PlanRows[k].service_level_effective)[1] > 0
        /\ PlanRows[k].lead_time_import_days = <<0, 1>>
        /\ PlanRows[k].safety_stock_qty[1] > 0
        /\ PlanRows[k].safety_stock_qty
              = RMul(PlanRows[k].forecast_daily, PlanRows[k].safety_stock_days)

SameCanonicalCode(c) ==
    {j \in DOMAIN df_product_forecast.rows :
        /\ normalize_item_code(c) # <<>>
        /\ normalize_item_code(df_product_forecast.rows[j].item_code)
              = normalize_item_code(c)}

\* C16: the key of core_inventory.normalize_item_code equals the canonical
\* code of core_demand.normalize_item_code for every item code of the two
\* tables, and a snapshot row is joined to a forecast row that denotes the
\* same canonical code: its plan row carries that forecast row's demand_total.
C16_OneNormalizer ==
    Planned =>
        /\ \A k \in DOMAIN df_inventory_dc.rows :
              inventory_normalize_item_code(df_inventory_dc.rows[k].item_code)
                  = normalize_item_code(df_inventory_dc.rows[k].item_code)
        /\ \A j \in DOMAIN df_product_forecast.rows :
              inventory_normalize_item_code(df_product_forecast.rows[j].item_code)
                  = normalize_item_code(df_product_forecast.rows[j].item_code)
        /\ \A k \in DOMAIN PlanRows :
              SameCanonicalCode(PlanRows[k].item_code) # {} =>
                  \E j \in SameCanonicalCode(PlanRows[k].item_code) :
                      PlanRows[k].demand_total
                          = df_product_forecast.rows[j].demand_total

NotBelowZero(x) == x[2] > 0 /\ x[1] >= 0

\* C17: a plan row whose decision is Order has suggested_order_qty >= 1, in
\* both safety stock modes, for non-negative stock, lead time and safety
\* stock days.
C17_OrderHasQuantity ==
    \A k \in DOMAIN PlanRows :
        LET r == PlanRows[k]
        IN  (/\ r.inventory_decision = "Order"
             /\ r.safety_stock_mode \in {"stat", "days"}
             /\ NotBelowZero(r.on_hand_dc) /\ NotBelowZero(r.on_order_from_china)
             /\ NotBelowZero(r.lead_time_import_days)
             /\ NotBelowZero(r.safety_stock_days))
            => r.suggested_order_qty >= 1

\* ------------------------------------------------------------------------
\* core_demand.build_branch_level_forecast
\* ------------------------------------------------------------------------
BranchKeysOf(rows) == {<<rows[i].item_code, rows[i].branch>> : i \in DOMAIN rows}
BranchRowsOf(rows, key) ==
    SelectSeq(rows, LAMBDA r : r.item_code = key[1] /\ r.branch = key[2])

\* the order of the groupby(["item code", "branch"]) keys
BranchKeyBefore(a, b) == TextLess(a[1], b[1]) \/ (a[1] = b[1] /\ TextLess(a[2], b[2]))

RECURSIVE SortedBranchKeys(_)
SortedBranchKeys(S) ==
    IF S = {} THEN <<>>
    ELSE LET least == CHOOSE x \in S : \A y \in S \ {x} : BranchKeyBefore(x, y)
         IN  <<least>> \o SortedBranchKeys(S \ {least})

\* the outcomes of the two rounds of most_frequent_name for a group: "" when
\* it has no name, else one of its names (the only one when all rows agree)
BranchNames(group) ==
    IF {Strip(group[i].iteam_name) : i \in DOMAIN group} \ {<<>>} = {}
    THEN {<<>>}
    ELSE {Strip(group[i].iteam_name) : i \in DOMAIN group} \ {<<>>}

BranchNameMaps(rows) ==
    {nm \in [BranchKeysOf(rows) ->
                UNION {BranchNames(BranchRowsOf(rows, k)) : k \in BranchKeysOf(rows)}] :
        \A k \in BranchKeysOf(rows) : nm[k] \in BranchNames(BranchRowsOf(rows, k))}

\* the months of the group in ascending order
BranchMonths(group) == SortedTexts({group[i].month : i \in DOMAIN group})

\* the group's demand month by month, the rows of a month summed
BranchSeries(group) ==
    [k \in DOMAIN BranchMonths(group) |->
        SeqSum([i \in DOMAIN SelectSeq(group, LAMBDA r : r.month = BranchMonths(group)[k])
                  |-> SelectSeq(group, LAMBDA r : r.month = BranchMonths(group)[k])[i].demand])]

\* The call.  name_map picks the outcome of most_frequent_name per group.
build_branch_level_forecast(df, name_map) ==
    [k \in DOMAIN SortedBranchKeys(BranchKeysOf(NormalizeCodes(df))) |->
        Extend(_compute_demand_stats_and_forecast(
                   BranchSeries(BranchRowsOf(NormalizeCodes(df),
                                             SortedBranchKeys(BranchKeysOf(NormalizeCodes(df)))[k]))),
               [item_code |-> SortedBranchKeys(BranchKeysOf(NormalizeCodes(df)))[k][1],
                branch |-> SortedBranchKeys(BranchKeysOf(NormalizeCodes(df)))[k][2],
                iteam_name |-> name_map[SortedBranchKeys(BranchKeysOf(NormalizeCodes(df)))[k]],
                months_list |->
                    BranchMonths(BranchRowsOf(NormalizeCodes(df),
                                              SortedBranchKeys(BranchKeysOf(NormalizeCodes(df)))[k]))])]

\* ------------------------------------------------------------------------
\* app.py: the script, run from top to bottom on every interaction
\* ------------------------------------------------------------------------
\* A sales file is [name |-> f.name, month_label |-> the text of its label
\* input, df_wide |-> pd.read_excel(f)].  session_state holds reset_id and,
\* for each table key, the empty tuple (key absent) or the 1-tuple of the
\* table.

\* f.name.split(".")[0]
Stem(name) ==
    IF IndexOf(name, ".") = 0 THEN name ELSE SubSeq(name, 1, IndexOf(name, ".") - 1)

\* lines 55-75: the files in order, used_labels and month_dfs so far
RECURSIVE SalesUploadLoop(_, _, _)
SalesUploadLoop(files, used_labels, mdfs) ==
    IF files = <<>> THEN mdfs
    ELSE IF Strip(Head(files).month_label) # <<>>
            /\ Strip(Head(files).month_label) \notin used_labels
    THEN SalesUploadLoop(Tail(files),
                         used_labels \cup {Strip(Head(files).month_label)},
                         Append(mdfs, [month_label |-> Strip(Head(files).month_label),
                                       df_wide |-> Head(files).df_wide]))
    ELSE SalesUploadLoop(Tail(files), used_labels, mdfs)

\* lines 49-75
UploadLoop(files) == SalesUploadLoop(files, {}, <<>>)

\* df_product_fc as plan_inventory_dc reads it: the columns of lines 395-405,
\* demand_std the root of the variance
ForecastTable(fc) ==
    [columns |-> Headers(ForecastColumnNames, ""),
     rows |-> [k \in DOMAIN fc |->
                 [item_code |-> fc[k].item_code,
                  demand_total |-> R(fc[k].demand_total),
                  forecast_next_month |-> fc[k].forecast_next_month,
                  demand_std |-> RSqrt(fc[k].demand_std_sq),
                  abc_class |-> fc[k].abc_class]]]

\* lines 191-203: the item_code_key values both tables hold
CommonKeys(fc, df_inv) ==
    {inventory_normalize_item_code(fc[k].item_code) : k \in DOMAIN fc}
        \cap {inventory_normalize_item_code(df_inv.rows[i].item_code) :
                 i \in DOMAIN df_inv.rows}

\* the session with no key but reset_id
ClearedSession(reset_id) ==
    [reset_id |-> reset_id, df_long |-> <<>>, df_branch_fc |-> <<>>,
     df_product_fc |-> <<>>, df_plan |-> <<>>]

MaxResets == 1          \* presses of the reset button

Sheet(code, n) ==
    [iteam_name |-> <<NameP>>, item_code |-> <<code>>,
     others |-> <<[header |-> <<"B", "1">>, cells |-> <<Num(n)>>]>>]

\* the sales files at hand, named after their month
SalesFiles ==
    {[name |-> <<"2", "0", "2", "5", "-", "0", "1", ".", "x", "l", "s", "x">>,
      df_wide |-> Sheet(Code12, 1)],
     [name |-> <<"0", "1", "-", "2", "0", "2", "5", ".", "x", "l", "s", "x">>,
      df_wide |-> Sheet(Code12p0, 2)]}
\* the texts typed into a label input
LabelEntries == {Month(1), Month(2)}

InvSheet(code) ==
    [columns |-> Headers(InvColumnNames, ""),
     rows |-> <<[item_code |-> code, iteam_name |-> "n1", on_hand_dc |-> R(0),
                 on_order_from_china |-> R(0), lead_time_import_days |-> R(4),
                 safety_stock_days |-> R(3)]>>]
\* the inventory files at hand: pd.read_excel(inv_file)
InvFiles == {InvSheet(Code12p0), InvSheet(Code7)}

\* the number inputs (days_per_month set to 25) and the defaults of
\* plan_inventory_dc
AppParams ==
    [days_per_month |-> 25, service_level |-> Q(95, 100),
     safety_stock_mode |-> "stat", review_days |-> 7]

InitApp ==
    /\ uploaded_sales = <<>>
    /\ inv_file = <<>>
    /\ session_state = ClearedSession(0)
    /\ month_dfs = <<>>
    /\ all_months = <<>>
    /\ IdleRestApp

\* the user fills the sales uploader: each label input shows its default
UploadSales ==
    /\ \E files \in {t \in TuplesOf(SalesFiles, 0, Cardinality(SalesFiles)) :
                        \A i, j \in DOMAIN t : i # j => t[i] # t[j]} :
         uploaded_sales' =
             [k \in DOMAIN files |->
                [name |-> files[k].name, month_label |-> Stem(files[k].name),
                 df_wide |-> files[k].df_wide]]
    /\ month_dfs' = UploadLoop(uploaded_sales')
    /\ UNCHANGED <<inv_file, session_state, all_months, restApp>>

\* the user types a month label for a file
EditMonthLabel ==
    /\ \E k \in DOMAIN uploaded_sales, label \in LabelEntries :
         uploaded_sales' = [uploaded_sales EXCEPT ![k].month_label = label]
    /\ month_dfs' = UploadLoop(uploaded_sales')
    /\ UNCHANGED <<inv_file, session_state, all_months, restApp>>

\* the user fills or empties the inventory uploader
UploadInventory ==
    /\ inv_file' \in {<<>>} \cup {<<f>> : f \in InvFiles}
    /\ month_dfs' = UploadLoop(uploaded_sales)
    /\ UNCHANGED <<uploaded_sales, session_state, all_months, restApp>>

\* lines 87-91: the forecasts of df_long stored with it
StoreForecasts(long) ==
    \E branch_names \in BranchNameMaps(NormalizeCodes(long)),
       product_names \in NameMaps(NormalizeCodes(long)) :
      \E sort_outcome \in
            TotalDescOutcomes(DedupSummary(Summary(NormalizeCodes(long), product_names))) :
        session_state' =
            [session_state EXCEPT
                !.df_long = <<long>>,
                !.df_branch_fc = <<build_branch_level_forecast(long, branch_names)>>,
                !.df_product_fc =
                    <<build_product_level_forecast(long, product_names, sort_outcome)>>]

\* lines 77-93: the button "build demand and forecast"
PressBuildDemand ==
    /\ month_dfs' = UploadLoop(uploaded_sales)
    /\ IF UploadLoop(uploaded_sales) = <<>>
       THEN UNCHANGED <<session_state, all_months>>
       ELSE /\ all_months' = AllMonths(UploadLoop(uploaded_sales))
            /\ \E name_map \in
                    NameMaps(Cleaned(Concat(AllMonths(UploadLoop(uploaded_sales))))) :
                 StoreForecasts(build_demand_long(UploadLoop(uploaded_sales), name_map))
    /\ UNCHANGED <<uploaded_sales, inv_file, restApp>>

\* lines 176-219: the button "run inventory planning"
PressRunPlan ==
    /\ month_dfs' = UploadLoop(uploaded_sales)
    /\ IF session_state.df_product_fc = <<>> \/ inv_file = <<>>
       THEN UNCHANGED session_state
       ELSE IF CommonKeys(session_state.df_product_fc[1], inv_file[1]) = {}
       THEN UNCHANGED session_state
       ELSE \E sort_outcome \in
                  SortOutcomes(WithDemandTotal(WithKey(
                      ForecastTable(session_state.df_product_fc[1]).rows))) :
              session_state' =
                  [session_state EXCEPT
                      !.df_plan =
                          <<plan_inventory_dc(ForecastTable(session_state.df_product_fc[1]),
                                              inv_file[1], AppParams, sort_outcome)>>]
    /\ UNCHANGED <<uploaded_sales, inv_file, all_months, restApp>>

\* lines 29-34: the reset button; the uploaders get new keys and come up empty
PressReset ==
    /\ session_state.reset_id < MaxResets
    /\ session_state' = ClearedSession(session_state.reset_id + 1)
    /\ uploaded_sales' = <<>>
    /\ inv_file' = <<>>
    /\ month_dfs' = <<>>
    /\ all_months' = <<>>
    /\ UNCHANGED restApp

NextApp ==
    \/ UploadSales
    \/ EditMonthLabel
    \/ UploadInventory
    \/ PressBuildDemand
    \/ PressRunPlan
    \/ PressReset

SpecApp == InitApp /\ [][NextApp]_vars

\* ------------------------------------------------------------------------
\* Properties of the app
\* ------------------------------------------------------------------------
\* the sheets of the last build that hold a row of the record's key
SheetsOfRecord(r) ==
    {k \in DOMAIN all_months :
        \E n \in DOMAIN all_months[k] :
            SurvivingKey(all_months[k][n]) = <<r.month, r.branch, r.item_code>>}

\* C15: the upload loop accepts at most one sheet per month: month_dfs never
\* holds two sheets that are stamped with the same standardized month, and
\* no (month, branch, item) demand of the stored demand table is the sum of
\* two different sheets.
C15_OneSheetPerMonth ==
    /\ \A i, j \in DOMAIN month_dfs :
          i # j => standardize_month_label(month_dfs[i].month_label)
                       # standardize_month_label(month_dfs[j].month_label)
    /\ session_state.df_long # <<>> =>
          \A n \in DOMAIN session_state.df_long[1] :
              Cardinality(SheetsOfRecord(session_state.df_long[1][n])) <= 1

\* the stored plan is what plan_inventory_dc returns for the stored product
\* forecast and one of the inventory files
PlanOfStoredForecast ==
    \E df_inv \in InvFiles :
      \E sort_outcome \in
            SortOutcomes(WithDemandTotal(WithKey(
                ForecastTable(session_state.df_product_fc[1]).rows))) :
        session_state.df_plan[1]
            = plan_inventory_dc(ForecastTable(session_state.df_product_fc[1]),
                                df_inv, AppParams, sort_outcome)

\* C18: in the session, a stored plan (df_plan) exists only with a stored
\* product forecast (df_product_fc) and was computed from the forecast
\* currently stored, after any sequence of button presses: rebuilding the
\* demand data leaves no plan of an older forecast.
C18_PlanFromStoredForecast ==
    session_state.df_plan # <<>> =>
        /\ session_state.df_product_fc # <<>>
        /\ PlanOfStoredForecast

\* reset removes every stored table
C18_ResetClearsTables ==
    [][PressReset =>
          /\ session_state'.df_long = <<>>
          /\ session_state'.df_branch_fc = <<>>
          /\ session_state'.df_product_fc = <<>>
          /\ session_state'.df_plan = <<>>]_vars

====
